---- MODULE Spec2Model ----
(***************************************************************************)
(* A model of src/src/main.rs: the terminal UI loop (run_ui), the worker   *)
(* task spawned by main, the two channels between them (the bounded tokio  *)
(* mpsc work queue and the unbounded std mpsc status channel), and the     *)
(* download pipeline download() -> download_audio -> get_downloaded_file_  *)
(* name -> get_metadata_video -> move_audio_file over an abstract file     *)
(* system (the scratch directory "output" and the destination root).       *)
(*                                                                         *)
(* Strings are sequences of one-character strings.  "W" stands for a       *)
(* character whose UTF-8 encoding is two bytes long (such as an accented   *)
(* letter); every other character of the model is one byte long.  "DEL"    *)
(* stands for the character U+007F.                                        *)
(***************************************************************************)
EXTENDS Integers, Sequences, FiniteSets, TLC

VARIABLES
  uipc,          \* run_ui: "Setup" | "Drain" | "Poll" | "Sending" | "Exited" | "Failed"
                 \* ("SentOk" | "SentErr" in the Enter handler taken in two steps)
  input,         \* run_ui: the input buffer (String)
  messages,      \* run_ui: the status history (Vec<String>)
  term,          \* the terminal: [raw |-> BOOLEAN, alt |-> BOOLEAN]
  queue,         \* the buffer of the tokio mpsc channel download_tx -> download_rx
  status,        \* the buffer of the std mpsc channel status_tx -> status_rx
  wpc,           \* the worker task's position
  url,           \* worker: the URL received from the queue
  file_name,     \* download(): the name get_downloaded_file_name returned
  metadata,      \* download(): the VideoMetadata of the job
  result,        \* what download() returned: <<"Ok">> or <<"Err", e>>
  mainpc,        \* main: "AwaitUi" | "AwaitWorker" | "Done"
  scratch_exists,\* the scratch directory "output" exists
  scratch,       \* the files in the scratch directory (a set of names)
  dest_exists,   \* the destination root exists
  authordirs,    \* the directories under the destination root (a set of names)
  destfiles,     \* the files under the destination root: <<directory, name>>
  taken,         \* history: every URL the worker received from the queue
  finished,      \* history: how many jobs had their Done or Error event sent
  submits        \* history: how many times Enter reached blocking_send

vars == <<uipc, input, messages, term, queue, status, wpc, url, file_name,
          metadata, result, mainpc, scratch_exists, scratch, dest_exists,
          authordirs, destfiles, taken, finished, submits>>

uivars == <<uipc, input, messages, term>>
jobvars == <<url, file_name, metadata, result>>
fsvars == <<scratch_exists, scratch, dest_exists, authordirs, destfiles>>

----------------------------------------------------------------------------
(* Program constants *)

\* tokio_mpsc::channel::<String>(32)
QueueCapacity == 32

\* if messages.len() > 300 { messages.drain(0..(messages.len() - 300)) }
HistoryCap == 300

\* let max_len = 32 in sanitize_filename
max_len == 32

----------------------------------------------------------------------------
(* Strings *)

Last(s) == s[Len(s)]

\* The UTF-8 length of a character.
ByteLen(c) == IF c = "W" THEN 2 ELSE 1

RECURSIVE StrBytes(_)
\* str::len(): the length in bytes.
StrBytes(s) == IF s = <<>> THEN 0 ELSE ByteLen(Head(s)) + StrBytes(Tail(s))

\* chars().take(n).collect()
TakeChars(s, n) == SubSeq(s, 1, IF Len(s) < n THEN Len(s) ELSE n)

\* The class [\x00-\x1F<>:"/\\|?*] of the regex in sanitize_filename ("^" stands
\* for a control character).
InvalidChars == {"^", "<", ">", ":", "\"", "/", "\\", "|", "?", "*"}

RECURSIVE ReplaceInvalidRuns_EachChar(_)
\* ReplaceInvalidRuns for a pattern without the "+": one "_" per invalid
\* character.
ReplaceInvalidRuns_EachChar(s) ==
  IF s = <<>> THEN <<>>
  ELSE (IF Head(s) \in InvalidChars THEN <<"_">> ELSE <<Head(s)>>)
       \o ReplaceInvalidRuns_EachChar(Tail(s))

RECURSIVE ReplaceInvalidRuns(_)
\* invalid_chars.replace_all(name, "_"): every maximal run of invalid
\* characters becomes one "_".
ReplaceInvalidRuns(s) ==
  IF s = <<>> THEN <<>>
  ELSE IF Head(s) \in InvalidChars
       THEN IF Len(s) > 1 /\ s[2] \in InvalidChars
            THEN ReplaceInvalidRuns(Tail(s))
            ELSE <<"_">> \o ReplaceInvalidRuns(Tail(s))
       ELSE <<Head(s)>> \o ReplaceInvalidRuns(Tail(s))

RECURSIVE TrimStartIn(_, _)
TrimStartIn(s, cs) ==
  IF s # <<>> /\ Head(s) \in cs THEN TrimStartIn(Tail(s), cs) ELSE s

RECURSIVE TrimEndIn(_, _)
TrimEndIn(s, cs) ==
  IF s # <<>> /\ Last(s) \in cs THEN TrimEndIn(SubSeq(s, 1, Len(s) - 1), cs) ELSE s

\* str::trim_matches(|c| c in cs)
TrimMatches(s, cs) == TrimEndIn(TrimStartIn(s, cs), cs)

\* str::trim(): whitespace off both ends.
Trim(s) == TrimMatches(s, {" "})

sanitize_filename(name) ==
  LET cleaned == TrimMatches(ReplaceInvalidRuns(name), {" ", "."})
  IN IF StrBytes(cleaned) > max_len THEN TakeChars(cleaned, max_len) ELSE cleaned

\* str::contains(pat)
Contains(s, pat) ==
  \E i \in 0..(Len(s) - Len(pat)) : SubSeq(s, i + 1, i + Len(pat)) = pat

RECURSIVE AfterLastDot(_)
\* file_name.split('.').last(): the text after the last '.', the whole name
\* when it holds no '.'.  split always yields one piece at least, so the
\* unwrap_or("mp3") never applies.
AfterLastDot(s) ==
  IF \E i \in 1..Len(s) : s[i] = "."
  THEN LET i == CHOOSE j \in 1..Len(s) : s[j] = "." /\ \A k \in (j + 1)..Len(s) : s[k] # "."
       IN SubSeq(s, i + 1, Len(s))
  ELSE s

Digit(d) == <<"0", "1", "2", "3", "4", "5", "6", "7", "8", "9">>[d + 1]

RECURSIVE Decimal(_)
\* format!("{}", counter)
Decimal(n) == IF n < 10 THEN <<Digit(n)>> ELSE Decimal(n \div 10) \o <<Digit(n % 10)>>

----------------------------------------------------------------------------
(* move_audio_file: the names it builds and the path it chooses *)

Ext(fname) == AfterLastDot(fname)

\* The test both branches of move_audio_file make: on the strings of the
\* metadata as received.
TitleHasAuthor(meta) == Contains(meta.title, meta.author_name)

\* The directory pushed onto dest_dir; <<>> is the destination root itself.
AuthorDir(meta) == sanitize_filename(meta.author_name)

\* The name without counter and extension.
BaseName(meta) ==
  IF TitleHasAuthor(meta)
  THEN sanitize_filename(meta.title)
  ELSE sanitize_filename(meta.author_name) \o <<"-">> \o sanitize_filename(meta.title)

\* format!("{}.{}", ..) and format!("{}-{}.{}", ..): the first candidate.
FirstName(meta, fname) == BaseName(meta) \o <<".">> \o Ext(fname)

\* format!("{}_{}.{}", ..) and format!("{}-{}_{}.{}", ..): the candidate of the
\* collision loop for one value of counter.
CounterName(meta, fname, counter) ==
  BaseName(meta) \o <<"_">> \o Decimal(counter) \o <<".">> \o Ext(fname)

\* Path::exists() of dest_dir.join(name): a file of that directory, or, in the
\* destination root, a directory of that name.
PathExists(dir, name, files, dirs) ==
  \/ <<dir, name>> \in files
  \/ dir = <<>> /\ name \in dirs

\* Path::exists() of the directory dest_dir/<author>.
DirExists(dir, root, files, dirs) ==
  IF dir = <<>> THEN root ELSE dir \in dirs \/ <<(<<>>), dir>> \in files

\* CollisionLoop without the loop: the first counter name is taken unchecked.
CollisionLoop_NoRecheck(meta, fname, dir, files, dirs, counter, new_name) ==
  CounterName(meta, fname, counter)

RECURSIVE CollisionLoop(_, _, _, _, _, _, _)
\* while new_dest_path.exists() { new_dest_path = ..counter..; counter += 1 }
CollisionLoop(meta, fname, dir, files, dirs, counter, new_name) ==
  IF PathExists(dir, new_name, files, dirs)
  THEN CollisionLoop(meta, fname, dir, files, dirs, counter + 1,
                     CounterName(meta, fname, counter))
  ELSE new_name

\* The name move_audio_file copies the source file to.
DestName(meta, fname, files, dirs) ==
  LET dir == AuthorDir(meta)
      dest_name == FirstName(meta, fname)
  IN IF PathExists(dir, dest_name, files, dirs)
     THEN CollisionLoop(meta, fname, dir, files, dirs, 1, dest_name)
     ELSE dest_name

----------------------------------------------------------------------------
(* The channels *)

UiFinished == uipc \in {"Exited", "Failed"}
WorkerFinished == wpc \in {"Exited", "Panicked", "Cancelled"}

\* download_tx lives until run_ui returns; download_rx until the worker task ends.
TxOpen == ~UiFinished
RxOpen == ~WorkerFinished
\* status_rx lives until run_ui returns.
StatusRxOpen == ~UiFinished

\* let _ = status_tx.send(ev): the event is put on the channel while the
\* receiver lives; after that send returns an Err, which is discarded.
Send(ev) == status' = IF StatusRxOpen THEN Append(status, ev) ELSE status

DownloadingLine(u) == <<"Descargando: ", u>>
DoneLine(u) == <<"Done: ", u>>
ErrorLine(u, e) == <<"Error: ", u, " -> ", e>>
ClosedLine == <<"Worker: channel closed, exiting worker.">>
QueuedLine(u) == <<"Queued: ", u>>
EnqueueErrorLine == <<"Error encolar URL: ", "channel closed">>

ErrNoBinary == "El binario yt-dlp no se encuentra en la carpeta './libs'."
ErrExitCode == "Error: yt-dlp termino con un codigo no exitoso"
ErrNoFiles == "No se encontraron archivos en el directorio de salida"
ErrReadDir == "read_dir: io error"
ErrDestDir == "Error al crear el directorio de destino"

NoMeta == [title |-> <<>>, author_name |-> <<>>]

----------------------------------------------------------------------------
(* The worker task of main *)

\* A panic inside the task (an unwrap of an Err): the task ends, download_rx is
\* dropped and with it the URLs still buffered.
Panic ==
  /\ wpc' = "Panicked"
  /\ queue' = <<>>

\* WorkerRecv as a worker that starts a job per URL without waiting for the
\* running one would take: also while a download is running.
WorkerRecv_WhileBusy ==
  /\ wpc \in {"Idle", "Downloading"}
  /\ queue # <<>>
  /\ url' = Head(queue)
  /\ queue' = Tail(queue)
  /\ taken' = Append(taken, Head(queue))
  /\ wpc' = "Got"
  /\ UNCHANGED <<uivars, status, file_name, metadata, result, mainpc, fsvars, finished, submits>>

\* while let Some(url) = download_rx.recv().await
WorkerRecv ==
  /\ wpc = "Idle"
  /\ queue # <<>>
  /\ url' = Head(queue)
  /\ queue' = Tail(queue)
  /\ taken' = Append(taken, Head(queue))
  /\ wpc' = "Got"
  /\ UNCHANGED <<uivars, status, file_name, metadata, result, mainpc, fsvars, finished, submits>>

\* recv() returns None: the buffer is empty and the sender is dropped.
WorkerRecvNone ==
  /\ wpc = "Idle"
  /\ queue = <<>>
  /\ ~TxOpen
  /\ wpc' = "Closing"
  /\ UNCHANGED <<uivars, queue, status, jobvars, mainpc, fsvars, taken, finished, submits>>

\* status_tx.send(format!("Descargando: {}", url))
WorkerSendDownloading ==
  /\ wpc = "Got"
  /\ Send(DownloadingLine(url))
  /\ wpc' = "Prepare"
  /\ UNCHANGED <<uivars, queue, jobvars, mainpc, fsvars, taken, finished, submits>>

\* download(), up to the call of download_audio: create the scratch directory
\* and the destination root when missing; a failure to create returns Ok(()).
WorkerPrepare(scratchOk, destOk) ==
  /\ wpc = "Prepare"
  /\ IF ~scratch_exists /\ ~scratchOk
     THEN /\ result' = <<"Ok">>
          /\ wpc' = "Report"
          /\ UNCHANGED <<scratch_exists, dest_exists>>
     ELSE /\ scratch_exists' = TRUE
          /\ IF ~dest_exists /\ ~destOk
             THEN /\ result' = <<"Ok">>
                  /\ wpc' = "Report"
                  /\ UNCHANGED dest_exists
             ELSE /\ dest_exists' = TRUE
                  /\ wpc' = "Downloading"
                  /\ UNCHANGED result
  /\ UNCHANGED <<uivars, queue, status, url, file_name, metadata, mainpc,
                 scratch, authordirs, destfiles, taken, finished, submits>>

\* download_audio: o is what the environment does: "NoBinary" (libs/yt-dlp.exe
\* is missing), "SpawnErr" (spawn().unwrap() panics), "ExitErr" (non-zero exit),
\* "NoFile" (exit 0, nothing written), "File" (exit 0, f written to the scratch
\* directory).
WorkerDownloadAudio(o, f) ==
  /\ wpc = "Downloading"
  /\ CASE o = "NoBinary" ->
            /\ result' = <<"Err", ErrNoBinary>>
            /\ wpc' = "Report"
            /\ UNCHANGED <<queue, scratch>>
       [] o = "SpawnErr" ->
            /\ Panic
            /\ UNCHANGED <<result, scratch>>
       [] o = "ExitErr" ->
            /\ result' = <<"Err", ErrExitCode>>
            /\ wpc' = "Report"
            /\ UNCHANGED <<queue, scratch>>
       [] o = "NoFile" ->
            /\ wpc' = "LocatingFile"
            /\ UNCHANGED <<queue, scratch, result>>
       [] o = "File" ->
            /\ scratch' = scratch \cup {f}
            /\ wpc' = "LocatingFile"
            /\ UNCHANGED <<queue, result>>
  /\ UNCHANGED <<uivars, status, url, file_name, metadata, mainpc,
                 scratch_exists, dest_exists, authordirs, destfiles, taken, finished, submits>>

\* get_downloaded_file_name: the first file read_dir yields, in the order of
\* the operating system (any file of the directory); o is "Ok", "ReadDirErr"
\* (read_dir fails: Err) or "EntryErr" (next_entry().unwrap() panics).
WorkerLocateFile(o, f) ==
  /\ wpc = "LocatingFile"
  /\ CASE o = "ReadDirErr" ->
            /\ result' = <<"Err", ErrReadDir>>
            /\ wpc' = "Report"
            /\ UNCHANGED <<queue, file_name>>
       [] o = "EntryErr" ->
            /\ Panic
            /\ UNCHANGED <<result, file_name>>
       [] o = "Ok" ->
            IF scratch = {}
            THEN /\ result' = <<"Err", ErrNoFiles>>
                 /\ wpc' = "Report"
                 /\ UNCHANGED <<queue, file_name>>
            ELSE /\ f \in scratch
                 /\ file_name' = f
                 /\ wpc' = "FetchingMetadata"
                 /\ UNCHANGED <<queue, result>>
  /\ UNCHANGED <<uivars, status, url, metadata, mainpc, fsvars, taken, finished, submits>>

\* get_metadata_video(url).await.unwrap(): an Err panics.
WorkerFetchMetadata(ok, meta) ==
  /\ wpc = "FetchingMetadata"
  /\ IF ok
     THEN /\ metadata' = meta
          /\ wpc' = "Relocating"
          /\ UNCHANGED queue
     ELSE /\ Panic
          /\ UNCHANGED metadata
  /\ UNCHANGED <<uivars, status, url, file_name, result, mainpc, fsvars, taken, finished, submits>>

\* move_audio_file and the match on its result in download(); o is what the
\* file system does: "Ok", "MkdirErr" (create_dir_all(..).unwrap() panics),
\* "CopyErr" (fs::copy(..).unwrap() panics), "RemoveErr" (the copy is made and
\* fs::remove_file(..).unwrap() panics).
WorkerMoveAudioFile(o) ==
  /\ wpc = "Relocating"
  /\ LET dir == AuthorDir(metadata)
         name == DestName(metadata, file_name, destfiles, authordirs)
     IN IF ~dest_exists
        THEN /\ o \in {"Ok", "MkdirErr"}
             /\ IF o = "Ok"
                THEN /\ dest_exists' = TRUE
                     /\ result' = <<"Err", ErrDestDir>>
                     /\ wpc' = "Report"
                     /\ UNCHANGED queue
                ELSE /\ Panic
                     /\ UNCHANGED <<dest_exists, result>>
             /\ UNCHANGED <<authordirs, destfiles, scratch>>
        ELSE IF ~DirExists(dir, dest_exists, destfiles, authordirs)
        THEN /\ o \in {"Ok", "MkdirErr"}
             /\ IF o = "Ok"
                THEN /\ authordirs' = authordirs \cup {dir}
                     /\ result' = <<"Err", ErrDestDir>>
                     /\ wpc' = "Report"
                     /\ UNCHANGED queue
                ELSE /\ Panic
                     /\ UNCHANGED <<authordirs, result>>
             /\ UNCHANGED <<dest_exists, destfiles, scratch>>
        ELSE /\ o \in {"Ok", "CopyErr", "RemoveErr"}
             \* dest_dir names a file, not a directory: the copy cannot succeed
             /\ (dir # <<>> /\ dir \notin authordirs) => o = "CopyErr"
             /\ CASE o = "CopyErr" ->
                       /\ Panic
                       /\ UNCHANGED <<destfiles, scratch, result>>
                  [] o = "RemoveErr" ->
                       /\ Panic
                       /\ destfiles' = destfiles \cup {<<dir, name>>}
                       /\ UNCHANGED <<scratch, result>>
                  [] o = "Ok" ->
                       /\ destfiles' = destfiles \cup {<<dir, name>>}
                       /\ scratch' = scratch \ {file_name}
                       /\ result' = <<"Ok">>
                       /\ wpc' = "Report"
                       /\ UNCHANGED queue
             /\ UNCHANGED <<dest_exists, authordirs>>
  /\ UNCHANGED <<uivars, status, url, file_name, metadata, mainpc,
                 scratch_exists, taken, finished, submits>>

\* match download(&url, &usb_path).await { Ok(()) => send Done, Err(e) => send Error }
\* The locals of the iteration (url, and those of download()) end with it.
WorkerReport ==
  /\ wpc = "Report"
  /\ Send(IF result[1] = "Ok" THEN DoneLine(url) ELSE ErrorLine(url, result[2]))
  /\ wpc' = "Idle"
  /\ url' = <<>>
  /\ file_name' = <<>>
  /\ metadata' = NoMeta
  /\ result' = <<"Ok">>
  /\ finished' = finished + 1
  /\ UNCHANGED <<uivars, queue, mainpc, fsvars, taken, submits>>

\* After the loop: status_tx.send("Worker: channel closed, exiting worker.")
WorkerSendClosed ==
  /\ wpc = "Closing"
  /\ Send(ClosedLine)
  /\ wpc' = "Exited"
  /\ UNCHANGED <<uivars, queue, jobvars, mainpc, fsvars, taken, finished, submits>>

----------------------------------------------------------------------------
(* run_ui *)

\* PushDrained putting the new line first instead of last.
PushDrained_Front(msgs, st) ==
  LET pushed == <<st>> \o msgs
  IN IF Len(pushed) > HistoryCap
     THEN SubSeq(pushed, Len(pushed) - HistoryCap + 1, Len(pushed))
     ELSE pushed

\* messages.push(st); if messages.len() > 300 { messages.drain(0..(messages.len() - 300)); }
PushDrained(msgs, st) ==
  LET pushed == Append(msgs, st)
  IN IF Len(pushed) > HistoryCap
     THEN SubSeq(pushed, Len(pushed) - HistoryCap + 1, Len(pushed))
     ELSE pushed

\* messages.push(line) of the Enter handler.
PushLine(msgs, line) == Append(msgs, line)

\* run_ui returns: download_tx and status_rx are dropped, and with status_rx
\* the events still buffered.  main resumes from spawn_blocking(..).await??
\* once run_ui has returned, and the model takes both as one step: after
\* Ok(()) main goes on to await the worker; an Err returns from main, and the
\* runtime shut down with it drops the worker task where it stands.
UiReturn(pc) ==
  /\ uipc' = pc
  /\ status' = <<>>
  /\ IF pc = "Exited"
     THEN /\ mainpc' = "AwaitWorker"
          /\ UNCHANGED <<wpc, queue>>
     ELSE /\ mainpc' = "Done"
          /\ wpc' = IF WorkerFinished THEN wpc ELSE "Cancelled"
          /\ queue' = <<>>

\* run_ui goes on, at pc.
UiGoes(pc) ==
  /\ uipc' = pc
  /\ UNCHANGED <<status, mainpc, wpc, queue>>

\* enable_raw_mode()?; execute!(stdout, EnterAlternateScreen)?; Terminal::new(backend)?
\* o names the call that fails, or "Ok".
UiSetup(o) ==
  /\ uipc = "Setup"
  /\ CASE o = "RawErr" -> /\ UiReturn("Failed")
                          /\ UNCHANGED term
       [] o = "AltErr" -> /\ UiReturn("Failed")
                          /\ term' = [raw |-> TRUE, alt |-> FALSE]
       [] o = "NewErr" -> /\ UiReturn("Failed")
                          /\ term' = [raw |-> TRUE, alt |-> TRUE]
       [] o = "Ok" -> /\ UiGoes("Drain")
                      /\ term' = [raw |-> TRUE, alt |-> TRUE]
  /\ UNCHANGED <<input, messages, jobvars, fsvars, taken, finished, submits>>

\* UiDrainOne as a UI that receives status events at any moment would take
\* it: also between the send and the push of the Enter handler.
UiDrainOne_Anytime ==
  /\ uipc \in {"Drain", "SentOk", "SentErr"}
  /\ status # <<>>
  /\ messages' = PushDrained(messages, Head(status))
  /\ status' = Tail(status)
  /\ UNCHANGED <<uipc, input, term, queue, wpc, jobvars, mainpc, fsvars, taken, finished, submits>>

\* One turn of while let Ok(st) = status_rx.try_recv() { .. }
UiDrainOne ==
  /\ uipc = "Drain"
  /\ status # <<>>
  /\ messages' = PushDrained(messages, Head(status))
  /\ status' = Tail(status)
  /\ UNCHANGED <<uipc, input, term, queue, wpc, jobvars, mainpc, fsvars, taken, finished, submits>>

\* try_recv() finds the channel empty; terminal.draw(..)? follows.
UiDraw(ok) ==
  /\ uipc = "Drain"
  /\ status = <<>>
  /\ IF ok THEN UiGoes("Poll") ELSE UiReturn("Failed")
  /\ UNCHANGED <<input, messages, term, jobvars, fsvars, taken, finished, submits>>

\* event::poll(100 ms)? returns false, or the event read is no key event.
UiPollNone ==
  /\ uipc = "Poll"
  /\ uipc' = "Drain"
  /\ UNCHANGED <<input, messages, term, queue, status, wpc, jobvars, mainpc,
                 fsvars, taken, finished, submits>>

\* event::poll(..)? or event::read()? returns an error.
UiPollErr ==
  /\ uipc = "Poll"
  /\ UiReturn("Failed")
  /\ UNCHANGED <<input, messages, term, jobvars, fsvars, taken, finished, submits>>

\* KeyCode::Esc: disable_raw_mode()?; execute!(.., LeaveAlternateScreen)?;
\* terminal.show_cursor()?; return Ok(()).  o names the call that fails, or "Ok".
UiKeyEsc(o) ==
  /\ uipc = "Poll"
  /\ CASE o = "RawErr" -> /\ UiReturn("Failed")
                          /\ UNCHANGED term
       [] o = "LeaveErr" -> /\ UiReturn("Failed")
                            /\ term' = [term EXCEPT !.raw = FALSE]
       [] o = "CursorErr" -> /\ UiReturn("Failed")
                             /\ term' = [raw |-> FALSE, alt |-> FALSE]
       [] o = "Ok" -> /\ UiReturn("Exited")
                      /\ term' = [raw |-> FALSE, alt |-> FALSE]
  /\ UNCHANGED <<input, messages, jobvars, fsvars, taken, finished, submits>>

\* KeyCode::Char(c) => input.push(c)
UiKeyChar(c) ==
  /\ uipc = "Poll"
  /\ input' = Append(input, c)
  /\ uipc' = "Drain"
  /\ UNCHANGED <<messages, term, queue, status, wpc, jobvars, mainpc, fsvars, taken, finished, submits>>

\* KeyCode::Backspace => input.pop()
UiKeyBackspace ==
  /\ uipc = "Poll"
  /\ input' = IF input = <<>> THEN input ELSE SubSeq(input, 1, Len(input) - 1)
  /\ uipc' = "Drain"
  /\ UNCHANGED <<messages, term, queue, status, wpc, jobvars, mainpc, fsvars, taken, finished, submits>>

\* KeyCode::Tab (button_focused, which only the drawing reads, is not part of
\* the model) and every other key: _ => {}
UiKeyOther ==
  /\ uipc = "Poll"
  /\ uipc' = "Drain"
  /\ UNCHANGED <<input, messages, term, queue, status, wpc, jobvars, mainpc, fsvars, taken, finished, submits>>

\* What follows blocking_send's return in the Enter handler: the line pushed
\* for its result, then input.clear().
AfterSend(ok) ==
  /\ messages' = PushLine(messages, IF ok THEN QueuedLine(Trim(input)) ELSE EnqueueErrorLine)
  /\ input' = <<>>
  /\ uipc' = "Drain"

\* download_tx.blocking_send(trimmed.to_string()) when it returns at once:
\* Err when the receiver is gone, Ok when the buffer has room.
SendNow ==
  IF ~RxOpen
  THEN /\ AfterSend(FALSE)
       /\ UNCHANGED queue
  ELSE /\ Len(queue) < QueueCapacity
       /\ queue' = Append(queue, Trim(input))
       /\ AfterSend(TRUE)

\* UiKeyEnter without the trim: the input is sent as typed whenever Enter is
\* pressed.
UiKeyEnter_Untrimmed ==
  /\ uipc = "Poll"
  /\ submits' = submits + 1
  /\ IF RxOpen /\ Len(queue) < QueueCapacity
     THEN /\ queue' = Append(queue, input)
          /\ messages' = PushLine(messages, QueuedLine(input))
     ELSE /\ messages' = PushLine(messages, EnqueueErrorLine)
          /\ UNCHANGED queue
  /\ input' = <<>>
  /\ uipc' = "Drain"
  /\ UNCHANGED <<term, status, wpc, jobvars, mainpc, fsvars, taken, finished>>

\* KeyCode::Enter.  With the buffer full and the receiver alive blocking_send
\* parks the UI thread inside the handler.
UiKeyEnter ==
  /\ uipc = "Poll"
  /\ IF Trim(input) = <<>>
     THEN /\ uipc' = "Drain"
          /\ UNCHANGED <<input, messages, queue, submits>>
     ELSE /\ submits' = submits + 1
          /\ IF RxOpen /\ Len(queue) >= QueueCapacity
             THEN /\ uipc' = "Sending"
                  /\ UNCHANGED <<input, messages, queue>>
             ELSE SendNow
  /\ UNCHANGED <<term, status, wpc, jobvars, mainpc, fsvars, taken, finished>>

\* The parked blocking_send returns: room was made, or the receiver was dropped.
UiSendReturns ==
  /\ uipc = "Sending"
  /\ SendNow
  /\ UNCHANGED <<term, status, wpc, jobvars, mainpc, fsvars, taken, finished, submits>>

\* The Enter handler in two steps, for what the worker does between them:
\* first blocking_send returns (the buffer has room, or the receiver is gone),
UiKeyEnterSend ==
  /\ uipc = "Poll"
  /\ Trim(input) # <<>>
  /\ submits' = submits + 1
  /\ IF RxOpen
     THEN /\ Len(queue) < QueueCapacity
          /\ queue' = Append(queue, Trim(input))
          /\ uipc' = "SentOk"
     ELSE /\ uipc' = "SentErr"
          /\ UNCHANGED queue
  /\ UNCHANGED <<input, messages, term, status, wpc, jobvars, mainpc, fsvars, taken, finished>>

\* then the line for its result is pushed and the input cleared.
UiKeyEnterPush ==
  /\ uipc \in {"SentOk", "SentErr"}
  /\ AfterSend(uipc = "SentOk")
  /\ UNCHANGED <<term, queue, status, wpc, jobvars, mainpc, fsvars, taken, finished, submits>>

----------------------------------------------------------------------------
(* main *)

\* let _ = worker_handle.await; Ok(())
MainWorkerJoined ==
  /\ mainpc = "AwaitWorker"
  /\ wpc \in {"Exited", "Panicked"}
  /\ mainpc' = "Done"
  /\ UNCHANGED <<uivars, queue, status, wpc, jobvars, fsvars, taken, finished, submits>>

----------------------------------------------------------------------------
(* The state after main has made the channels and spawned both tasks *)

InitProgram ==
  /\ uipc = "Setup"
  /\ input = <<>>
  /\ messages = <<>>
  /\ term = [raw |-> FALSE, alt |-> FALSE]
  /\ queue = <<>>
  /\ status = <<>>
  /\ wpc = "Idle"
  /\ url = <<>>
  /\ file_name = <<>>
  /\ metadata = NoMeta
  /\ result = <<"Ok">>
  /\ mainpc = "AwaitUi"
  /\ scratch = {}
  /\ authordirs = {}
  /\ destfiles = {}
  /\ taken = <<>>
  /\ finished = 0
  /\ submits = 0

----------------------------------------------------------------------------
(* Spec: the whole program, a few short URLs submitted *)

\* Bounds of the model
MaxSubmit == 2

\* The URLs the user types, character by character, the files yt-dlp writes
\* and the metadata the oEmbed endpoint returns.
Urls == {<<"a">>, <<"b">>}
UrlChars == {"a", "b"}
IsPrefix(s, t) == Len(s) <= Len(t) /\ SubSeq(t, 1, Len(s)) = s
TypesUrl(c) == \E u \in Urls : IsPrefix(Append(input, c), u)
FileNames == {<<"s", ".", "m">>}
Metas == {[title |-> <<"s">>, author_name |-> <<"A">>]}

Init ==
  /\ InitProgram
  /\ scratch_exists \in BOOLEAN
  /\ dest_exists \in BOOLEAN

UiNext ==
  \/ \E o \in {"Ok", "RawErr", "AltErr", "NewErr"} : UiSetup(o)
  \/ UiDrainOne
  \/ \E ok \in BOOLEAN : UiDraw(ok)
  \/ UiPollNone
  \/ UiPollErr
  \/ \E o \in {"Ok", "RawErr"} : UiKeyEsc(o)
  \/ \E c \in UrlChars : TypesUrl(c) /\ UiKeyChar(c)
  \/ UiKeyBackspace
  \/ UiKeyOther
  \/ submits < MaxSubmit /\ UiKeyEnter

WorkerNext ==
  \/ WorkerRecv
  \/ WorkerRecvNone
  \/ WorkerSendDownloading
  \/ \E scratchOk, destOk \in BOOLEAN : WorkerPrepare(scratchOk, destOk)
  \/ \E o \in {"NoBinary", "SpawnErr", "ExitErr", "NoFile", "File"} :
       \E f \in FileNames : WorkerDownloadAudio(o, f)
  \/ \E o \in {"Ok", "ReadDirErr", "EntryErr"} :
       \E f \in FileNames : WorkerLocateFile(o, f)
  \/ \E ok \in BOOLEAN : \E meta \in Metas : WorkerFetchMetadata(ok, meta)
  \/ \E o \in {"Ok", "MkdirErr", "CopyErr", "RemoveErr"} : WorkerMoveAudioFile(o)
  \/ WorkerReport
  \/ WorkerSendClosed

MainNext == MainWorkerJoined

\* The parked send (UiSendReturns) needs QueueCapacity URLs buffered; it is
\* part of SpecBackpressure.
Next == UiNext \/ WorkerNext \/ MainNext

Spec == Init /\ [][Next]_vars

----------------------------------------------------------------------------
(* What the UI has been told by the worker *)

IsDownloadingLine(l) == l[1] = "Descargando: "
IsTerminalLine(l) == l[1] \in {"Done: ", "Error: "}
IsWorkerLine(l) == IsDownloadingLine(l) \/ IsTerminalLine(l) \/ l = ClosedLine

\* The worker's events the UI holds or is about to receive, oldest first.
WorkerLines == SelectSeq(messages, IsWorkerLine) \o status

\* The jobs taken and not yet reported.
InFlight == Len(taken) - finished

\* How many events the worker has sent: two for every reported job, and the
\* "Descargando" of the job in flight.
Emitted == 2 * finished + (IF InFlight > 0 /\ wpc # "Got" THEN 1 ELSE 0)

\* Event number n of the worker (n >= 1) is what line l says: the odd ones
\* announce a job, the even ones end it, job by job in the order taken.
IsEvent(n, l) ==
  IF n % 2 = 1
  THEN l = DownloadingLine(taken[(n + 1) \div 2])
  ELSE IsTerminalLine(l) /\ l[2] = taken[n \div 2]

----------------------------------------------------------------------------
(* Claims checked under Spec *)

\* C1: at most one download job is in flight in every reachable state: a URL
\* taken from the queue and not yet reported is the only one, and the worker
\* is then inside that job (or has died or been dropped inside it), never back
\* at the queue.
C1_SingleFlight ==
  /\ InFlight \in {0, 1}
  /\ InFlight = 1 => wpc \notin {"Idle", "Closing", "Exited"}
  /\ InFlight = 0 => wpc \in {"Idle", "Closing", "Exited", "Cancelled"}

\* C1 witness: a second URL is being downloaded after the first job was
\* reported, while the UI still runs.
C1_Witness ==
  /\ Len(taken) = 2
  /\ finished = 1
  /\ wpc = "Downloading"
  /\ ~UiFinished

\* C2: a failure of a job never halts the pipeline: the worker task never dies
\* of one.
C2_FailureNeverHalts == wpc # "Panicked"

\* C5: every URL the worker took has had its "Descargando" event and then
\* exactly one terminal event by the time the worker stops taking URLs, so N
\* URLs taken make N terminal events.
C5_OneTerminalEventPerJob ==
  wpc \in {"Exited", "Panicked"} => finished = Len(taken)

\* C6: the worker's events reach the UI history in the order the worker sent
\* them: while run_ui runs, the worker's lines of the history followed by the
\* events still on the channel are the last events sent, none lost, none
\* repeated, none out of place.
C6_StatusOrder ==
  ~UiFinished =>
    /\ Len(WorkerLines) <= Emitted
    /\ Len(SelectSeq(messages, IsWorkerLine)) = Len(WorkerLines) - Len(status)
    /\ (Len(messages) < HistoryCap => Len(WorkerLines) = Emitted)
    /\ \A i \in 1..Len(WorkerLines) :
         IsEvent(Emitted - Len(WorkerLines) + i, WorkerLines[i])

\* C6 witness: the history holds the events of two jobs with different URLs
\* and one more event waits on the channel.
C6_Witness ==
  /\ ~UiFinished
  /\ Len(taken) = 2
  /\ taken[1] # taken[2]
  /\ Len(SelectSeq(messages, IsWorkerLine)) = 3
  /\ Len(status) = 1

\* C7: orderly shutdown: once run_ui has returned through Escape and main has
\* finished, the worker has left its loop through end-of-input and sent its
\* final event (the only way to "Exited").
C7_OrderlyShutdown == (uipc = "Exited" /\ mainpc = "Done") => wpc = "Exited"

\* C8: a job whose download, file lookup and metadata succeeded and whose
\* relocation met no failing file system call ends in Done with its file in
\* <dest>/<author>/, also when that directory had to be created.
C8_RelocationCreatesDirectory ==
  (wpc = "Report" /\ file_name # <<>> /\ metadata # NoMeta) =>
    /\ result = <<"Ok">>
    /\ \E f \in destfiles : f[1] = AuthorDir(metadata)

----------------------------------------------------------------------------
(* SpecBackpressure: the work queue fills while a download runs *)

\* The user submits the URL "a" again and again; yt-dlp, started for the first
\* one, ends (with a non-zero exit) only once the UI is parked in blocking_send.
NextBackpressure ==
  \/ UiSetup("Ok")
  \/ UiDrainOne
  \/ UiDraw(TRUE)
  \/ TypesUrl("a") /\ UiKeyChar("a")
  \/ submits < QueueCapacity + 2 /\ UiKeyEnter
  \/ UiSendReturns
  \/ WorkerRecv
  \/ WorkerSendDownloading
  \/ WorkerPrepare(TRUE, TRUE)
  \/ uipc = "Sending" /\ \E f \in FileNames : WorkerDownloadAudio("ExitErr", f)
  \/ WorkerReport

SpecBackpressure == Init /\ [][NextBackpressure]_vars

\* C3: when Enter is handled with non-empty input while the queue holds
\* QueueCapacity URLs and the worker lives, the handler does not wait: the
\* queue is left as it was, an error line is added to the history and the UI
\* loop goes on.
C3_EnterOnFullQueueDoesNotBlock ==
  [][(submits' = submits + 1 /\ Len(queue) = QueueCapacity /\ RxOpen) =>
       /\ uipc' = "Drain"
       /\ queue' = queue
       /\ Len(messages') = Len(messages) + 1
       /\ Last(messages')[1] = "Error encolar URL: "]_vars

----------------------------------------------------------------------------
(* SpecHistory: the history fills up, one job after the other *)

\* Nothing is queued, running or waiting to be drained.
Quiet == wpc = "Idle" /\ queue = <<>> /\ status = <<>>

\* The user submits the URL "a" each time the previous job has been reported
\* and drained; every download ends with a non-zero exit.
NextHistory ==
  \/ UiSetup("Ok")
  \/ UiDrainOne
  \/ UiDraw(TRUE)
  \/ Quiet /\ TypesUrl("a") /\ UiKeyChar("a")
  \/ Quiet /\ submits <= HistoryCap \div 3 /\ UiKeyEnter
  \/ WorkerRecv
  \/ WorkerSendDownloading
  \/ WorkerPrepare(TRUE, TRUE)
  \/ \E f \in FileNames : WorkerDownloadAudio("ExitErr", f)
  \/ WorkerReport

SpecHistory == Init /\ [][NextHistory]_vars

\* C4: the status history never holds more than HistoryCap lines.
C4_HistoryBounded == Len(messages) <= HistoryCap

----------------------------------------------------------------------------
(* SpecRelocate: move_audio_file over the contents a destination can have *)

\* Bound of the model: the counter names the destination may already hold.
MaxCounter == 3

\* "s.m" and a name without extension.
FileNamesR == {<<"s", ".", "m">>, <<"s">>}

Repeat(c, n) == [i \in 1..n |-> c]

MetasR ==
  { [title |-> <<"s">>, author_name |-> <<"A">>],
    [title |-> <<"A", " ", "s">>, author_name |-> <<"A">>],
    [title |-> <<"A", " ", "s">>, author_name |-> <<" ", "A">>],
    [title |-> <<"A", "_", "B">>, author_name |-> <<"A", "/", "B">>],
    [title |-> Repeat("x", max_len) \o <<"A">>, author_name |-> <<"A">>],
    [title |-> <<"s">>, author_name |-> <<>>] }

\* The names move_audio_file may try for a job, up to MaxCounter.
CandidateNames(meta, fname) ==
  {FirstName(meta, fname)} \cup {CounterName(meta, fname, k) : k \in 1..MaxCounter}

\* The worker is about to call move_audio_file for the first URL submitted:
\* the download wrote the file, the metadata arrived; the author's directory
\* exists or not and holds any of the names the job may try.
InitRelocate ==
  /\ uipc = "Drain"
  /\ input = <<>>
  /\ messages = <<QueuedLine(<<"a">>), DownloadingLine(<<"a">>)>>
  /\ term = [raw |-> TRUE, alt |-> TRUE]
  /\ queue = <<>>
  /\ status = <<>>
  /\ wpc = "Relocating"
  /\ url = <<"a">>
  /\ file_name \in FileNamesR
  /\ metadata \in MetasR
  /\ result = <<"Ok">>
  /\ mainpc = "AwaitUi"
  /\ scratch_exists = TRUE
  /\ scratch = {file_name}
  /\ dest_exists = TRUE
  /\ authordirs \in {{}, {AuthorDir(metadata)} \ {<<>>}}
  /\ destfiles \in SUBSET {<<AuthorDir(metadata), n>> : n \in CandidateNames(metadata, file_name)}
  /\ (destfiles # {} => DirExists(AuthorDir(metadata), dest_exists, {}, authordirs))
  /\ taken = <<(<<"a">>)>>
  /\ finished = 0
  /\ submits = 1

NextRelocate ==
  \/ \E o \in {"Ok", "MkdirErr", "CopyErr", "RemoveErr"} : WorkerMoveAudioFile(o)
  \/ WorkerReport
  \/ UiDrainOne

SpecRelocate == InitRelocate /\ [][NextRelocate]_vars

\* move_audio_file returned Ok(()) in this step.
Relocated == wpc = "Relocating" /\ wpc' = "Report" /\ result' = <<"Ok">>

\* <base>.<ext> for k = 0, <base>_<k>.<ext> for k >= 1.
NameNumbered(base, ext, k) ==
  IF k = 0 THEN base \o <<".">> \o ext
  ELSE base \o <<"_">> \o Decimal(k) \o <<".">> \o ext

\* C9: the path move_audio_file places the file at did not exist when chosen:
\* it is <base>.<ext> when that is free, and otherwise <base>_k.<ext> for the
\* smallest k >= 1 whose path does not exist.
C9_CollisionResolution ==
  [][Relocated =>
       LET dir == AuthorDir(metadata)
           Free(k) == ~PathExists(dir, NameNumbered(BaseName(metadata), Ext(file_name), k),
                                  destfiles, authordirs)
           kmin == CHOOSE k \in 0..(Cardinality(destfiles) + Cardinality(authordirs) + 1) :
                     Free(k) /\ \A j \in 0..(k - 1) : ~Free(j)
           chosen == <<dir, NameNumbered(BaseName(metadata), Ext(file_name), kmin)>>
       IN /\ chosen \notin destfiles
          /\ destfiles' = destfiles \cup {chosen}]_vars

\* C9 witness: <base>.<ext> and <base>_1.<ext> were there, and the file has
\* been placed at <base>_2.<ext>.
C9_Witness ==
  /\ wpc = "Report"
  /\ result = <<"Ok">>
  /\ scratch = {}
  /\ LET dir == AuthorDir(metadata)
         N(k) == <<dir, NameNumbered(BaseName(metadata), Ext(file_name), k)>>
     IN {N(0), N(1), N(2)} \subseteq destfiles /\ N(3) \notin destfiles

\* C10: the base name of the placed file is the sanitized title when the
\* sanitized title contains the sanitized author, and otherwise
\* <sanitized author>-<sanitized title>, for the first candidate and for
\* every counter name.
C10_BaseNameSelection ==
  [][Relocated =>
       LET author == sanitize_filename(metadata.author_name)
           title == sanitize_filename(metadata.title)
           base == IF Contains(title, author) THEN title ELSE author \o <<"-">> \o title
       IN \E f \in destfiles' \ destfiles :
            \E k \in 0..(Cardinality(destfiles) + 1) :
              f[2] = NameNumbered(base, Ext(file_name), k)]_vars

----------------------------------------------------------------------------
(* SpecSanitize: sanitize_filename over titles and author names *)

\* The strings the oEmbed endpoint may return as title or author: a start, a
\* middle and an end, the middles around max_len characters and bytes long.
StartsS == {<<>>, <<" ">>, <<".">>, <<"/">>, <<"<", ">">>, <<"DEL">>}
MiddlesS ==
  { <<>>, <<"a">>, <<"a", "/", "?", "b">>, <<"a", "_", "*", "b">>,
    Repeat("x", max_len - 1), Repeat("x", max_len),
    Repeat("x", max_len - 1) \o <<" ", "y">>,
    Repeat("x", max_len - 1) \o <<".", "y">>,
    Repeat("x", max_len - 1) \o <<":", "|", "y">>,
    Repeat("W", max_len \div 2), Repeat("W", max_len \div 2 + 1),
    Repeat("W", max_len + 1) }
EndsS == {<<>>, <<" ">>, <<".">>, <<"|">>, <<"a">>}
InputsS == {a \o b \o c : a \in StartsS, b \in MiddlesS, c \in EndsS}

MetasS ==
  {[title |-> <<"s">>, author_name |-> x] : x \in InputsS}
    \cup {[title |-> x, author_name |-> <<"A">>] : x \in InputsS}

\* The worker is about to call move_audio_file, which sanitizes the author and
\* the title of the metadata; the destination root is empty or holds the
\* author's directory.
InitSanitize ==
  /\ uipc = "Drain"
  /\ input = <<>>
  /\ messages = <<QueuedLine(<<"a">>), DownloadingLine(<<"a">>)>>
  /\ term = [raw |-> TRUE, alt |-> TRUE]
  /\ queue = <<>>
  /\ status = <<>>
  /\ wpc = "Relocating"
  /\ url = <<"a">>
  /\ file_name = <<"s", ".", "m">>
  /\ metadata \in MetasS
  /\ result = <<"Ok">>
  /\ mainpc = "AwaitUi"
  /\ scratch_exists = TRUE
  /\ scratch = {file_name}
  /\ dest_exists = TRUE
  /\ authordirs \in {{}, {AuthorDir(metadata)} \ {<<>>}}
  /\ destfiles = {}
  /\ taken = <<(<<"a">>)>>
  /\ finished = 0
  /\ submits = 1

NextSanitize ==
  \/ \E o \in {"Ok", "MkdirErr", "CopyErr", "RemoveErr"} : WorkerMoveAudioFile(o)
  \/ WorkerReport
  \/ UiDrainOne

SpecSanitize == InitSanitize /\ [][NextSanitize]_vars

\* The strings move_audio_file applies sanitize_filename to in this state.
SanitizeInputs == {metadata.author_name, metadata.title}

\* The control characters: those of U+0000..U+001F ("^") and U+007F.
ControlChars == {"^", "DEL"}

Count(s, cs) == Len(SelectSeq(s, LAMBDA c : c \in cs))

\* How many maximal runs of invalid characters s holds.
RunCount(s) ==
  Cardinality({i \in 1..Len(s) :
                 s[i] \in InvalidChars /\ (i = 1 \/ s[i - 1] \notin InvalidChars)})

\* The characters of s that are neither invalid nor "_", in order.
PlainChars(s) == SelectSeq(s, LAMBDA c : c \notin InvalidChars \cup {"_"})

\* What the claim says of the output out for the input x, for a given set of
\* characters that must not appear: none of them appears, every run of invalid
\* characters has become one "_" (the output holds one "_" per run and per "_"
\* of the input, fewer only when it was cut at max_len characters, and its
\* other characters are consecutive characters of the input's), and the
\* output is max_len characters long at most.
SanitizedAs(x, out, forbidden) ==
  /\ \A i \in 1..Len(out) : out[i] \notin forbidden
  /\ Count(out, {"_"}) <= RunCount(x) + Count(x, {"_"})
  /\ Len(out) < max_len => Count(out, {"_"}) = RunCount(x) + Count(x, {"_"})
  /\ Contains(PlainChars(x), PlainChars(out))
  /\ Len(out) <= max_len

\* C11: for every input, sanitize_filename returns a string without any
\* character of U+0000..U+001F and without < > : " / \ | ? *, each run of such
\* characters replaced by one "_", and at most 32 characters long; the
\* directory move_audio_file has made from the job's author name is such a
\* string.
C11_SanitizerOutput ==
  /\ \A x \in SanitizeInputs : SanitizedAs(x, sanitize_filename(x), InvalidChars)
  /\ wpc = "Report" =>
       \A d \in authordirs : SanitizedAs(metadata.author_name, d, InvalidChars)

\* C11 witness: move_audio_file has made the directory for an author whose
\* name began with a run of two invalid characters and was longer than
\* max_len: the directory's name is max_len characters long and begins with
\* the one "_" of that run.
C11_Witness ==
  /\ wpc = "Report"
  /\ result = <<"Err", ErrDestDir>>
  /\ Len(metadata.author_name) > max_len
  /\ SubSeq(metadata.author_name, 1, 2) = <<"<", ">">>
  /\ \E d \in authordirs :
       Len(d) = max_len /\ Head(d) = "_" /\ d[2] \notin InvalidChars \cup {"_"}

\* C11 as stated: no control character at all in the output.
C11_NoControlCharacter ==
  \A x \in SanitizeInputs :
    SanitizedAs(x, sanitize_filename(x), InvalidChars \cup ControlChars)

\* C20: the output of sanitize_filename neither starts nor ends with a space
\* or a period, and sanitizing the output again returns it unchanged.
C20_TrimmedAndIdempotent ==
  \A x \in SanitizeInputs :
    LET out == sanitize_filename(x)
    IN /\ out # <<>> => Head(out) \notin {" ", "."} /\ Last(out) \notin {" ", "."}
       /\ sanitize_filename(out) = out

----------------------------------------------------------------------------
(* Claims on the extension, checked under SpecRelocate *)

EndsWith(s, suffix) ==
  Len(suffix) <= Len(s) /\ SubSeq(s, Len(s) - Len(suffix) + 1, Len(s)) = suffix

\* The extension the relocated file is to carry: the text after the last "."
\* of the source file's name, "mp3" for a name without ".".
ExtensionOrMp3(fname) ==
  IF \E i \in 1..Len(fname) : fname[i] = "."
  THEN LET dots == {i \in 1..Len(fname) : fname[i] = "."}
           last == CHOOSE i \in dots : \A j \in dots : j <= i
       IN SubSeq(fname, last + 1, Len(fname))
  ELSE <<"m", "p", "3">>

\* C12: the file move_audio_file places carries the source file's own
\* extension, and the extension mp3 when the source file's name has none.
C12_ExtensionOrDefault ==
  [][Relocated =>
       \E f \in destfiles' \ destfiles :
         EndsWith(f[2], <<".">> \o ExtensionOrMp3(file_name))]_vars

----------------------------------------------------------------------------
(* SpecEnter: the user types text with spaces around and inside it *)

\* Bound of the model: the submissions that reach the queue or fail to.
MaxEnter == 2

\* What the user types, character by character (Backspace takes characters
\* back): " a ", spaces only, and "b b".
TypedInputs == {<<" ", "a", " ">>, <<" ", " ">>, <<"b", " ", "b">>}
TypedChars == {"a", "b", " "}
TypesInput(c) == \E t \in TypedInputs : IsPrefix(Append(input, c), t)

\* The worker runs the jobs (yt-dlp exits with an error, or cannot be started
\* and the worker dies of it).
NextEnter ==
  \/ UiSetup("Ok")
  \/ UiDrainOne
  \/ UiDraw(TRUE)
  \/ UiPollNone
  \/ \E c \in TypedChars : TypesInput(c) /\ UiKeyChar(c)
  \/ UiKeyBackspace
  \/ UiKeyOther
  \/ submits < MaxEnter /\ UiKeyEnter
  \/ WorkerRecv
  \/ WorkerSendDownloading
  \/ WorkerPrepare(TRUE, TRUE)
  \/ \E o \in {"ExitErr", "SpawnErr"} : \E f \in FileNames : WorkerDownloadAudio(o, f)
  \/ WorkerReport

SpecEnter == Init /\ [][NextEnter]_vars

\* A step of run_ui that handles a key.
KeyHandled == uipc = "Poll" /\ uipc' = "Drain"

IsUiLine(l) == l[1] \in {"Queued: ", "Error encolar URL: "}

\* C13: a key handled while the input is empty or spaces only changes neither
\* the queue nor the history; the queue grows only by Enter on an input whose
\* trimmed form is non-empty, by that trimmed form, and the input is cleared
\* then; so every string in the queue is non-empty and has no space at
\* either end.
C13_EnterTrimsAndRejectsEmpty ==
  [][/\ (KeyHandled /\ Trim(input) = <<>>) =>
          queue' = queue /\ messages' = messages
     /\ Len(queue') > Len(queue) =>
          /\ KeyHandled /\ Trim(input) # <<>>
          /\ queue' = Append(queue, Trim(input))
          /\ input' = <<>>
     /\ submits' # submits =>
          /\ KeyHandled /\ Trim(input) # <<>> /\ input' = <<>>
          /\ IsUiLine(Last(messages')) /\ Len(messages') = Len(messages) + 1
     /\ \A i \in 1..Len(queue') :
          queue'[i] # <<>> /\ Head(queue'[i]) # " " /\ Last(queue'[i]) # " "]_vars

\* C13 witness: "a", typed with a space before it, is in the queue, and the
\* input has been cleared.
C13_Witness ==
  /\ queue # <<>>
  /\ Last(queue) = <<"a">>
  /\ input = <<>>
  /\ Last(messages) = QueuedLine(<<"a">>)

----------------------------------------------------------------------------
(* Claims on the worker's events, checked under Spec *)

\* The states a job that ends in Done goes through, in order: the worker
\* receives the URL, download_audio returns Ok, get_downloaded_file_name
\* returns a name, get_metadata_video returns the metadata, move_audio_file
\* returns Ok.
DonePath ==
  <<"Idle", "Downloading", "LocatingFile", "FetchingMetadata", "Relocating", "Done">>

\* The worker's lines about the URL u that the UI holds or is about to receive.
LinesAbout(lines, u) ==
  Len(SelectSeq(lines, LAMBDA l : (IsDownloadingLine(l) \/ IsTerminalLine(l)) /\ l[2] = u))

\* The worker moves on inside download(): download_audio, the file lookup or
\* the metadata request has returned with success.
StepInsideJob ==
  /\ wpc' # wpc
  /\ wpc' \in {"LocatingFile", "FetchingMetadata", "Relocating"}

\* The worker reports Done for a job that went through the whole of
\* download(), for a URL it has taken once.
ReportsDone ==
  /\ wpc = "Report" /\ wpc' = "Idle"
  /\ result = <<"Ok">>
  /\ metadata # NoMeta
  /\ Len(SelectSeq(taken, LAMBDA u : u = url)) = 1

\* C14: while the UI listens, every transition of a job sends exactly one
\* status event, and a job that reaches Done has sent as many events as it
\* took transitions: one per step of DonePath.
C14_OneEventPerTransition ==
  [][StatusRxOpen =>
       /\ StepInsideJob => Len(status') = Len(status) + 1
       /\ (ReportsDone /\ Len(messages) + Len(status) < HistoryCap) =>
            LinesAbout(messages' \o status', url) = Len(DonePath) - 1]_vars

\* C15: whenever run_ui has returned, through Escape or through an error of
\* setup, drawing, polling or reading, raw mode is disabled and the alternate
\* screen has been left.
C15_TerminalRestored == UiFinished => ~term.raw /\ ~term.alt

\* C16: when download() has returned Ok(()), for which the worker sends
\* "Done: <url>", the job found a file in the scratch directory, that file has
\* been placed in the author's directory under the destination root and it
\* is no longer in the scratch directory.
C16_DoneOnlyIfPlaced ==
  (wpc = "Report" /\ result = <<"Ok">>) =>
    /\ file_name # <<>>
    /\ metadata # NoMeta
    /\ file_name \notin scratch
    /\ \E f \in destfiles : f[1] = AuthorDir(metadata)

\* C17: when download_audio returns and the job goes on to look for its file,
\* the scratch directory held nothing before this download wrote to it: no
\* earlier job has left a file there, so the file found is the job's own.
C17_ScratchHoldsOwnFileOnly ==
  [][(wpc = "Downloading" /\ wpc' = "LocatingFile") => scratch = {}]_vars

\* download() returns Ok(()) in this step: the job reaches Done.
ReachesDone == wpc # "Report" /\ wpc' = "Report" /\ result' = <<"Ok">>

\* C18: no step removes or replaces a file under the destination root: what
\* was there is still there; only move_audio_file adds files, and a job that
\* reaches Done has added exactly one new file.
C18_RelocationNeverOverwrites ==
  [][/\ destfiles \subseteq destfiles'
     /\ destfiles' # destfiles => wpc = "Relocating"
     /\ ReachesDone => Cardinality(destfiles' \ destfiles) = 1]_vars

----------------------------------------------------------------------------
(* SpecQueued: the worker runs between the send and the push of Enter *)

NextQueued ==
  \/ UiSetup("Ok")
  \/ UiDrainOne
  \/ UiDraw(TRUE)
  \/ \E c \in UrlChars : TypesUrl(c) /\ UiKeyChar(c)
  \/ submits < MaxSubmit /\ UiKeyEnterSend
  \/ UiKeyEnterPush
  \/ WorkerRecv
  \/ WorkerSendDownloading
  \/ WorkerPrepare(TRUE, TRUE)
  \/ \E o \in {"ExitErr", "SpawnErr"} : \E f \in FileNames : WorkerDownloadAudio(o, f)
  \/ WorkerReport

SpecQueued == Init /\ [][NextQueued]_vars

IsQueuedLine(l) == l[1] = "Queued: "

\* C19: in the history, the "Descargando" line of the j-th URL the worker took
\* comes after the "Queued" line of the j-th URL accepted into the queue, which
\* names the same URL.
C19_QueuedBeforeDownloading ==
  \A i \in 1..Len(messages) :
    IsDownloadingLine(messages[i]) =>
      LET before == SubSeq(messages, 1, i)
          j == Len(SelectSeq(before, IsDownloadingLine))
          queued == SelectSeq(before, IsQueuedLine)
      IN Len(queued) >= j /\ queued[j] = QueuedLine(messages[i][2])

\* C19 witness: the worker's "Descargando" event for the second URL is on the
\* status channel before the UI has pushed that URL's "Queued" line, the
\* history holding the first URL's lines already.
C19_Witness ==
  /\ uipc = "SentOk"
  /\ status # <<>>
  /\ Last(status) = DownloadingLine(Trim(input))
  /\ Len(taken) = 2
  /\ taken[1] # taken[2]
  /\ \E i \in 1..Len(messages) : IsDownloadingLine(messages[i])

====
